---- MODULE Spec2Model ----
(***************************************************************************)
(* A model of the semver package (src/semver.go): the strict and tolerant *)
(* parsers, the formatter, the comparator, the increment helpers and the  *)
(* sort wrapper.                                                           *)
(*                                                                         *)
(* Go strings are TLA+ strings, read one byte at a time with SubSeq.      *)
(* uint64 and int64 values are kept at their full width as four 16-bit    *)
(* limbs, most significant first; an int64 is its two's-complement bit    *)
(* pattern, so that v.Revision++ wraps exactly where the hardware does.   *)
(***************************************************************************)
EXTENDS Integers, Sequences, FiniteSets, TLC

(***************************************************************************)
(* Bytes and strings                                                       *)
(***************************************************************************)

numbers == "0123456789"

alphas == "abcdefghijklmnopqrstuvwxyzABCDEFGHIJKLMNOPQRSTUVWXYZ-"

alphanum == alphas \o numbers

CharAt(s, i) == SubSeq(s, i, i)

CharsOf(s) == { CharAt(s, i) : i \in 1..Len(s) }

IndexIn(c, set) == CHOOSE i \in 1..Len(set) : CharAt(set, i) = c

\* The byte value of a one-character string (ASCII), for the characters the
\* inputs are drawn from.
ByteOf(c) ==
    IF c \in CharsOf(numbers) THEN 47 + IndexIn(c, numbers)
    ELSE IF c \in CharsOf("ABCDEFGHIJKLMNOPQRSTUVWXYZ")
        THEN 64 + IndexIn(c, "ABCDEFGHIJKLMNOPQRSTUVWXYZ")
    ELSE IF c \in CharsOf("abcdefghijklmnopqrstuvwxyz")
        THEN 96 + IndexIn(c, "abcdefghijklmnopqrstuvwxyz")
    ELSE IF c = "\t" THEN 9
    ELSE IF c = "\n" THEN 10
    ELSE IF c = "\f" THEN 12
    ELSE IF c = "\r" THEN 13
    ELSE IF c = " " THEN 32
    ELSE IF c = "+" THEN 43
    ELSE IF c = "-" THEN 45
    ELSE IF c = "." THEN 46
    ELSE 63

\* Go's > on strings: byte-wise lexicographic, a proper prefix is smaller.
RECURSIVE StrGreater(_, _)
StrGreater(a, b) ==
    IF Len(a) = 0 THEN FALSE
    ELSE IF Len(b) = 0 THEN TRUE
    ELSE IF CharAt(a, 1) # CharAt(b, 1)
        THEN ByteOf(CharAt(a, 1)) > ByteOf(CharAt(b, 1))
    ELSE StrGreater(SubSeq(a, 2, Len(a)), SubSeq(b, 2, Len(b)))

containsOnly(s, set) == \A i \in 1..Len(s) : CharAt(s, i) \in CharsOf(set)

hasLeadingZeroes(s) == Len(s) > 1 /\ CharAt(s, 1) = "0"

\* strings.TrimLeft(s, "0")
RECURSIVE TrimLeftZero(_)
TrimLeftZero(s) ==
    IF Len(s) > 0 /\ CharAt(s, 1) = "0" THEN TrimLeftZero(SubSeq(s, 2, Len(s)))
    ELSE s

\* strings.Split(s, "."), for a non-empty s
RECURSIVE SplitDot(_)
SplitDot(s) ==
    IF \A i \in 1..Len(s) : CharAt(s, i) # "." THEN <<s>>
    ELSE LET k == CHOOSE i \in 1..Len(s) :
                      /\ CharAt(s, i) = "."
                      /\ \A j \in 1..(i - 1) : CharAt(s, j) # "."
         IN  <<SubSeq(s, 1, k - 1)>> \o SplitDot(SubSeq(s, k + 1, Len(s)))

(***************************************************************************)
(* 64-bit integers                                                         *)
(***************************************************************************)

LimbBase == 2 ^ 16

SignLimb == 2 ^ 15

\* the uint64 (or non-negative int64) with the small value n
U64(n) == <<0, 0, 0, n>>

Zero64 == U64(0)

MaxUint64 == <<LimbBase - 1, LimbBase - 1, LimbBase - 1, LimbBase - 1>>

MaxInt64 == <<SignLimb - 1, LimbBase - 1, LimbBase - 1, LimbBase - 1>>

MinInt64 == <<SignLimb, 0, 0, 0>>

\* int64(-1), the "no revision" sentinel
MinusOne == MaxUint64

\* x++ on a 64-bit integer: wraps at 2^64 (and so from MaxInt64 to MinInt64)
AddOne(x) ==
    IF x[4] < LimbBase - 1 THEN <<x[1], x[2], x[3], x[4] + 1>>
    ELSE IF x[3] < LimbBase - 1 THEN <<x[1], x[2], x[3] + 1, 0>>
    ELSE IF x[2] < LimbBase - 1 THEN <<x[1], x[2] + 1, 0, 0>>
    ELSE IF x[1] < LimbBase - 1 THEN <<x[1] + 1, 0, 0, 0>>
    ELSE Zero64

\* a > b on uint64
UintGreater(a, b) ==
    \E i \in 1..4 : a[i] > b[i] /\ \A j \in 1..(i - 1) : a[j] = b[j]

\* x >= 0 on int64
IntNonNeg(x) == x[1] < SignLimb

\* a > b on int64
IntGreater(a, b) ==
    IF IntNonNeg(a) # IntNonNeg(b) THEN IntNonNeg(a) ELSE UintGreater(a, b)

\* x*10 + d and the carry out of 64 bits
MulTenAdd(x, d) ==
    LET t4 == x[4] * 10 + d
        t3 == x[3] * 10 + (t4 \div LimbBase)
        t2 == x[2] * 10 + (t3 \div LimbBase)
        t1 == x[1] * 10 + (t2 \div LimbBase)
    IN  [val |-> <<t1 % LimbBase, t2 % LimbBase, t3 % LimbBase, t4 % LimbBase>>,
         carry |-> t1 \div LimbBase]

\* x div 10 and x mod 10
DivTen(x) ==
    LET q1 == x[1] \div 10
        r1 == x[1] % 10
        q2 == (r1 * LimbBase + x[2]) \div 10
        r2 == (r1 * LimbBase + x[2]) % 10
        q3 == (r2 * LimbBase + x[3]) \div 10
        r3 == (r2 * LimbBase + x[3]) % 10
        q4 == (r3 * LimbBase + x[4]) \div 10
        r4 == (r3 * LimbBase + x[4]) % 10
    IN  [quo |-> <<q1, q2, q3, q4>>, rem |-> r4]

\* strconv.ParseUint(s, 10, 64): err on the empty string, on a byte that is
\* no digit, and on a value above MaxUint64
RECURSIVE ParseUintFrom(_, _, _)
ParseUintFrom(s, i, acc) ==
    IF i > Len(s) THEN [err |-> FALSE, val |-> acc]
    ELSE IF CharAt(s, i) \notin CharsOf(numbers) THEN [err |-> TRUE, val |-> Zero64]
    ELSE LET m == MulTenAdd(acc, IndexIn(CharAt(s, i), numbers) - 1)
         IN  IF m.carry > 0 THEN [err |-> TRUE, val |-> MaxUint64]
             ELSE ParseUintFrom(s, i + 1, m.val)

ParseUint(s) ==
    IF Len(s) = 0 THEN [err |-> TRUE, val |-> Zero64]
    ELSE ParseUintFrom(s, 1, Zero64)

\* strconv.ParseInt(s, 10, 64) of an unsigned digit string: err also on a
\* value above MaxInt64
ParseInt(s) ==
    LET u == ParseUint(s)
    IN  IF u.err THEN u
        ELSE IF ~IntNonNeg(u.val) THEN [err |-> TRUE, val |-> MaxInt64]
        ELSE u

\* strconv.FormatUint(x, 10) / strconv.AppendUint
RECURSIVE FormatDigits(_)
FormatDigits(x) ==
    IF x = Zero64 THEN ""
    ELSE LET d == DivTen(x)
         IN  FormatDigits(d.quo) \o CharAt(numbers, d.rem + 1)

FormatUint(x) == IF x = Zero64 THEN "0" ELSE FormatDigits(x)

\* -x on int64 (two's complement)
Negate(x) ==
    AddOne(<<LimbBase - 1 - x[1], LimbBase - 1 - x[2],
             LimbBase - 1 - x[3], LimbBase - 1 - x[4]>>)

\* strconv.AppendInt(b, x, 10)
FormatInt(x) ==
    IF IntNonNeg(x) THEN FormatUint(x) ELSE "-" \o FormatUint(Negate(x))

(***************************************************************************)
(* Regular expressions                                                     *)
(*                                                                         *)
(* A pattern is a tree; Match returns, in the order a leftmost-first       *)
(* matcher prefers them, the states (position, captured groups) in which  *)
(* the pattern can end when started in state st.                           *)
(***************************************************************************)

Cls(set) == [op |-> "cls", set |-> set]

Lit(c) == Cls({c})

Cat(args) == [op |-> "cat", args |-> args]

Alt(args) == [op |-> "alt", args |-> args]

Opt(arg) == [op |-> "opt", arg |-> arg]

Star(arg) == [op |-> "star", arg |-> arg]

Plus(arg) == Cat(<<arg, Star(arg)>>)

Group(name, arg) == [op |-> "group", name |-> name, arg |-> arg]

Bol == [op |-> "bol"]

Eol == [op |-> "eol"]

GroupNames == {"major", "minor", "patch", "revision", "prerelease", "buildmetadata"}

Digit == Cls(CharsOf(numbers))

NonZeroDigit == Cls(CharsOf("123456789"))

Letter == Cls(CharsOf(alphas))

AlphaNum == Cls(CharsOf(alphanum))

Space == Cls({"\t", "\n", "\f", "\r", " "})

RECURSIVE Match(_, _, _), MatchEach(_, _, _)
Match(re, text, st) ==
    CASE re.op = "cls" ->
            IF st.pos <= Len(text) /\ CharAt(text, st.pos) \in re.set
            THEN <<[st EXCEPT !.pos = @ + 1]>>
            ELSE <<>>
      [] re.op = "cat" ->
            IF re.args = <<>> THEN <<st>>
            ELSE MatchEach(Cat(Tail(re.args)), text, Match(Head(re.args), text, st))
      [] re.op = "alt" ->
            IF re.args = <<>> THEN <<>>
            ELSE Match(Head(re.args), text, st) \o Match(Alt(Tail(re.args)), text, st)
      [] re.op = "opt" -> Match(re.arg, text, st) \o <<st>>
      [] re.op = "star" ->
            MatchEach(re, text, SelectSeq(Match(re.arg, text, st),
                                          LAMBDA r : r.pos > st.pos)) \o <<st>>
      [] re.op = "group" ->
            LET ends == Match(re.arg, text, st)
            IN  [k \in 1..Len(ends) |->
                    [ends[k] EXCEPT !.cap[re.name] = SubSeq(text, st.pos, ends[k].pos - 1)]]
      [] re.op = "bol" -> IF st.pos = 1 THEN <<st>> ELSE <<>>
      [] re.op = "eol" -> IF st.pos = Len(text) + 1 THEN <<st>> ELSE <<>>

MatchEach(re, text, sts) ==
    IF sts = <<>> THEN <<>>
    ELSE Match(re, text, Head(sts)) \o MatchEach(re, text, Tail(sts))

\* the matches of a pattern anchored at the start of the text, best first
Matches(re, text) == Match(re, text, [pos |-> 1, cap |-> [g \in GroupNames |-> ""]])

\* regexp.MatchString
MatchString(re, text) == Matches(re, text) # <<>>

\* regexp.FindStringSubmatch, by group name ("" for a group that did not match)
FindStringSubmatch(re, text) == Head(Matches(re, text)).cap

StrictNumber == Alt(<<Lit("0"), Cat(<<NonZeroDigit, Star(Digit)>>)>>)

StrictPreSegment ==
    Alt(<<Lit("0"),
          Cat(<<NonZeroDigit, Star(Digit)>>),
          Cat(<<Star(Digit), Letter, Star(AlphaNum)>>)>>)

TolerantPreSegment ==
    Alt(<<Plus(Digit), Cat(<<Star(Digit), Letter, Star(AlphaNum)>>)>>)

BuildMetadata ==
    Group("buildmetadata",
          Cat(<<Plus(AlphaNum), Star(Cat(<<Lit("."), Plus(AlphaNum)>>))>>))

KongVersionRegex ==
    Cat(<<Bol,
          Group("major", StrictNumber), Lit("."),
          Group("minor", StrictNumber), Lit("."),
          Group("patch", StrictNumber),
          Opt(Cat(<<Lit("."), Group("revision", StrictNumber)>>)),
          Opt(Cat(<<Lit("-"),
                    Group("prerelease",
                          Cat(<<StrictPreSegment,
                                Star(Cat(<<Lit("."), StrictPreSegment>>))>>))>>)),
          Opt(Cat(<<Lit("+"), BuildMetadata>>)),
          Eol>>)

KongTolerantVersionRegex ==
    Cat(<<Bol,
          Opt(Alt(<<Lit("v"), Star(Space)>>)),
          Opt(Group("major", Plus(Digit))),
          Opt(Lit(".")),
          Opt(Group("minor", Plus(Digit))),
          Opt(Lit(".")),
          Opt(Group("patch", Plus(Digit))),
          Opt(Cat(<<Lit("."), Group("revision", Plus(Digit))>>)),
          Opt(Cat(<<Lit("-"),
                    Group("prerelease",
                          Cat(<<TolerantPreSegment,
                                Star(Cat(<<Lit("."), TolerantPreSegment>>))>>))>>)),
          Opt(Cat(<<Lit("+"), BuildMetadata>>)),
          Star(Space),
          Eol>>)

(***************************************************************************)
(* Versions                                                                *)
(***************************************************************************)

\* PRVersion{}
ZeroPRVersion == [VersionStr |-> "", VersionNum |-> Zero64, IsNum |-> FALSE]

\* Version{}
ZeroVersion ==
    [Major |-> Zero64, Minor |-> Zero64, Patch |-> Zero64, Revision |-> Zero64,
     Pre |-> <<>>, Build |-> <<>>]

NoError == "nil"

Failure(err) == [v |-> ZeroVersion, err |-> err]

NewPRVersion(s) ==
    IF Len(s) = 0 THEN [pr |-> ZeroPRVersion, err |-> "Prerelease is empty"]
    ELSE IF containsOnly(s, numbers) THEN
        IF hasLeadingZeroes(s)
        THEN [pr |-> ZeroPRVersion,
              err |-> "Numeric PreRelease version must not contain leading zeroes"]
        ELSE LET num == ParseUint(s)
             IN  IF num.err THEN [pr |-> ZeroPRVersion, err |-> "value out of range"]
                 ELSE [pr |-> [ZeroPRVersion EXCEPT !.VersionNum = num.val, !.IsNum = TRUE],
                       err |-> NoError]
    ELSE IF containsOnly(s, alphanum) THEN
        [pr |-> [ZeroPRVersion EXCEPT !.VersionStr = s], err |-> NoError]
    ELSE [pr |-> ZeroPRVersion, err |-> "Invalid character(s) found in prerelease"]

\* PRVersion.String
PRString(pr) == IF pr.IsNum THEN FormatUint(pr.VersionNum) ELSE pr.VersionStr

\* PRVersion.Compare with the numeric identifiers ranked above the others
PRCompareNumericHigh(v, o) ==
    IF v.IsNum /\ ~o.IsNum THEN 1
    ELSE IF ~v.IsNum /\ o.IsNum THEN -1
    ELSE IF v.IsNum /\ o.IsNum THEN
        IF v.VersionNum = o.VersionNum THEN 0
        ELSE IF UintGreater(v.VersionNum, o.VersionNum) THEN 1
        ELSE -1
    ELSE
        IF v.VersionStr = o.VersionStr THEN 0
        ELSE IF StrGreater(v.VersionStr, o.VersionStr) THEN 1
        ELSE -1

\* PRVersion.Compare
PRCompare(v, o) ==
    IF v.IsNum /\ ~o.IsNum THEN -1
    ELSE IF ~v.IsNum /\ o.IsNum THEN 1
    ELSE IF v.IsNum /\ o.IsNum THEN
        IF v.VersionNum = o.VersionNum THEN 0
        ELSE IF UintGreater(v.VersionNum, o.VersionNum) THEN 1
        ELSE -1
    ELSE
        IF v.VersionStr = o.VersionStr THEN 0
        ELSE IF StrGreater(v.VersionStr, o.VersionStr) THEN 1
        ELSE -1

\* strings joined by dots, as String appends them
RECURSIVE JoinDot(_)
JoinDot(parts) ==
    IF Len(parts) = 1 THEN Head(parts)
    ELSE Head(parts) \o "." \o JoinDot(Tail(parts))

\* whether String emits the revision
EmitsRevision(v) == IntNonNeg(v.Revision)

\* Version.String with the revision emitted only when it is above zero
StringPositiveRevision(v) ==
    FormatUint(v.Major) \o "." \o FormatUint(v.Minor) \o "." \o FormatUint(v.Patch)
    \o (IF IntGreater(v.Revision, Zero64) THEN "." \o FormatInt(v.Revision) ELSE "")
    \o (IF Len(v.Pre) > 0
        THEN "-" \o JoinDot([k \in 1..Len(v.Pre) |-> PRString(v.Pre[k])])
        ELSE "")
    \o (IF Len(v.Build) > 0 THEN "+" \o JoinDot(v.Build) ELSE "")

\* Version.String
String(v) ==
    FormatUint(v.Major) \o "." \o FormatUint(v.Minor) \o "." \o FormatUint(v.Patch)
    \o (IF EmitsRevision(v) THEN "." \o FormatInt(v.Revision) ELSE "")
    \o (IF Len(v.Pre) > 0
        THEN "-" \o JoinDot([k \in 1..Len(v.Pre) |-> PRString(v.Pre[k])])
        ELSE "")
    \o (IF Len(v.Build) > 0 THEN "+" \o JoinDot(v.Build) ELSE "")

\* the pre-release loop of Parse: the identifiers, or the first error
RECURSIVE ParsePre(_, _)
ParsePre(prerelease, acc) ==
    IF prerelease = <<>> THEN [pre |-> acc, err |-> NoError]
    ELSE LET parsedPR == NewPRVersion(Head(prerelease))
         IN  IF parsedPR.err # NoError THEN [pre |-> <<>>, err |-> parsedPR.err]
             ELSE ParsePre(Tail(prerelease), Append(acc, parsedPR.pr))

\* the build loop of Parse: the segments, or the first error
RECURSIVE ParseBuild(_, _)
ParseBuild(build, acc) ==
    IF build = <<>> THEN [build |-> acc, err |-> NoError]
    ELSE IF Len(Head(build)) = 0 THEN [build |-> <<>>, err |-> "Build meta data is empty"]
    ELSE IF ~containsOnly(Head(build), alphanum)
        THEN [build |-> <<>>, err |-> "Invalid character(s) found in build meta data"]
    ELSE ParseBuild(Tail(build), Append(acc, Head(build)))

Parse(s) ==
    IF Len(s) = 0 THEN Failure("Version string empty")
    ELSE IF ~MatchString(KongVersionRegex, s) THEN Failure("Invalid version")
    ELSE
    LET parts == FindStringSubmatch(KongVersionRegex, s)
        major == ParseUint(parts["major"])
        minor == ParseUint(parts["minor"])
        patch == ParseUint(parts["patch"])
        revisionStr == parts["revision"]
        prereleaseStr == parts["prerelease"]
        buildStr == parts["buildmetadata"]
        revision == ParseInt(revisionStr)
        build == IF Len(buildStr) > 0 THEN SplitDot(buildStr) ELSE <<>>
        prerelease == IF Len(prereleaseStr) > 0 THEN SplitDot(prereleaseStr) ELSE <<>>
        pre == ParsePre(prerelease, <<>>)
        bld == ParseBuild(build, <<>>)
    IN  IF major.err \/ minor.err \/ patch.err THEN Failure("value out of range")
        ELSE IF Len(revisionStr) > 0 /\ revision.err THEN Failure("value out of range")
        ELSE IF pre.err # NoError THEN Failure(pre.err)
        ELSE IF bld.err # NoError THEN Failure(bld.err)
        ELSE [v |-> [Major |-> major.val, Minor |-> minor.val, Patch |-> patch.val,
                     Revision |-> IF Len(revisionStr) > 0 THEN revision.val ELSE MinusOne,
                     Pre |-> pre.pre, Build |-> bld.build],
              err |-> NoError]

\* the leading-zero removal ParseTolerant applies to each numeric field
StripZeroes(str) ==
    IF Len(str) > 1
    THEN IF Len(TrimLeftZero(str)) = 0 THEN "0" ELSE TrimLeftZero(str)
    ELSE str

ParseTolerant(s) ==
    IF ~MatchString(KongTolerantVersionRegex, s) THEN Failure("Invalid tolerant version")
    ELSE
    LET parts == FindStringSubmatch(KongTolerantVersionRegex, s)
        majorStr == StripZeroes(parts["major"])
        minorStr == StripZeroes(parts["minor"])
        patchStr == StripZeroes(parts["patch"])
        revisionStr == StripZeroes(parts["revision"])
        prereleaseStr == parts["prerelease"]
        buildStr == parts["buildmetadata"]
        short == Len(patchStr) = 0 \/ Len(minorStr) = 0 \/ Len(majorStr) = 0
        fill(str) == IF short /\ Len(str) = 0 THEN "0" ELSE str
    IN  IF short /\ (Len(prereleaseStr) > 0 \/ Len(buildStr) > 0)
        THEN Failure("Short version cannot contain PreRelease/Build meta data")
        ELSE Parse(fill(majorStr) \o "." \o fill(minorStr) \o "." \o fill(patchStr)
                   \o (IF Len(revisionStr) > 0 THEN "." \o revisionStr ELSE "")
                   \o (IF Len(prereleaseStr) > 0 THEN "-" \o prereleaseStr ELSE "")
                   \o (IF Len(buildStr) > 0 THEN "+" \o buildStr ELSE ""))

\* the pre-release part of Version.Compare
RECURSIVE ComparePreFrom(_, _, _)
ComparePreFrom(vPre, oPre, i) ==
    IF i <= Len(vPre) /\ i <= Len(oPre) THEN
        IF PRCompare(vPre[i], oPre[i]) = 0 THEN ComparePreFrom(vPre, oPre, i + 1)
        ELSE IF PRCompare(vPre[i], oPre[i]) = 1 THEN 1
        ELSE -1
    ELSE IF i = Len(vPre) + 1 /\ i = Len(oPre) + 1 THEN 0
    ELSE IF i = Len(vPre) + 1 /\ i < Len(oPre) + 1 THEN -1
    ELSE 1

ComparePre(vPre, oPre) ==
    IF Len(vPre) = 0 /\ Len(oPre) = 0 THEN 0
    ELSE IF Len(vPre) = 0 /\ Len(oPre) > 0 THEN 1
    ELSE IF Len(vPre) > 0 /\ Len(oPre) = 0 THEN -1
    ELSE ComparePreFrom(vPre, oPre, 1)

\* the revision test with the check of o's sentinel left out
RevisionDecidesOneSided(v, o) ==
    v.Revision # o.Revision /\ v.Revision # MinusOne

\* whether the revisions decide Version.Compare
RevisionDecides(v, o) ==
    v.Revision # o.Revision /\ v.Revision # MinusOne /\ o.Revision # MinusOne

\* Version.Compare with an absent revision ranked below every present one
CompareAbsentLowest(v, o) ==
    IF v.Major # o.Major THEN (IF UintGreater(v.Major, o.Major) THEN 1 ELSE -1)
    ELSE IF v.Minor # o.Minor THEN (IF UintGreater(v.Minor, o.Minor) THEN 1 ELSE -1)
    ELSE IF v.Patch # o.Patch THEN (IF UintGreater(v.Patch, o.Patch) THEN 1 ELSE -1)
    ELSE IF v.Revision # o.Revision
        THEN (IF IntGreater(v.Revision, o.Revision) THEN 1 ELSE -1)
    ELSE ComparePre(v.Pre, o.Pre)

\* Version.Compare
Compare(v, o) ==
    IF v.Major # o.Major THEN (IF UintGreater(v.Major, o.Major) THEN 1 ELSE -1)
    ELSE IF v.Minor # o.Minor THEN (IF UintGreater(v.Minor, o.Minor) THEN 1 ELSE -1)
    ELSE IF v.Patch # o.Patch THEN (IF UintGreater(v.Patch, o.Patch) THEN 1 ELSE -1)
    ELSE IF RevisionDecides(v, o)
        THEN (IF IntGreater(v.Revision, o.Revision) THEN 1 ELSE -1)
    ELSE ComparePre(v.Pre, o.Pre)

\* Version.LT
LT(v, o) == Compare(v, o) = -1

IncrementRevisionOf(v) ==
    IF IntNonNeg(v.Revision) THEN [v EXCEPT !.Revision = AddOne(@)] ELSE v

IncrementPatchOf(v) ==
    [v EXCEPT !.Patch = AddOne(@),
              !.Revision = IF IntNonNeg(@) THEN Zero64 ELSE @]

\* IncrementMinor without the reset of the patch number
IncrementMinorKeepsPatch(v) ==
    [v EXCEPT !.Minor = AddOne(@),
              !.Revision = IF IntNonNeg(@) THEN Zero64 ELSE @]

IncrementMinorOf(v) ==
    [v EXCEPT !.Minor = AddOne(@),
              !.Patch = Zero64,
              !.Revision = IF IntNonNeg(@) THEN Zero64 ELSE @]

IncrementMajorOf(v) ==
    [v EXCEPT !.Major = AddOne(@),
              !.Minor = Zero64,
              !.Patch = Zero64,
              !.Revision = IF IntNonNeg(@) THEN Zero64 ELSE @]

(***************************************************************************)
(* State                                                                   *)
(*                                                                         *)
(* The package keeps no state of its own: a Version is a value the caller *)
(* owns.  The state is the caller's: the Version it mutates, and the       *)
(* arguments and results of the pure operations it calls.                  *)
(***************************************************************************)

VARIABLES
    pc,         \* the caller's position
    v,          \* the Version the Mutators act on
    v0,         \* v as it was first constructed
    last,       \* the last Mutator call: its name, v before it, its error
    calls,      \* the number of Mutator calls made
    va, vb, vc, \* arguments of Compare
    cmp,        \* results of Compare on them
    vs,         \* the slice handed to Sort
    sorted,     \* the slice after Sort
    s,          \* the text handed to Parse
    parsed,     \* Parse(s)
    str,        \* parsed.String()
    reparsed,   \* Parse(str)
    t,          \* the text handed to ParseTolerant
    deco,       \* how t was obtained from s
    tolerant,   \* ParseTolerant(t)
    strictT     \* Parse(t)

mutVars == <<v, v0, last, calls>>

cmpVars == <<va, vb, vc, cmp>>

sortVars == <<vs, sorted>>

parseVars == <<s, parsed, str, reparsed>>

tolVars == <<t, deco, tolerant, strictT>>

vars == <<pc, mutVars, cmpVars, sortVars, parseVars, tolVars>>

None == "none"

MutIdle == v = ZeroVersion /\ v0 = ZeroVersion /\ last = None /\ calls = 0

CmpIdle == va = ZeroVersion /\ vb = ZeroVersion /\ vc = ZeroVersion /\ cmp = None

SortIdle == vs = <<>> /\ sorted = None

ParseIdle == s = "" /\ parsed = None /\ str = None /\ reparsed = None

TolIdle == t = "" /\ deco = None /\ tolerant = None /\ strictT = None

\* the Version Parse returns for a text it accepts
MustParse(text) == Parse(text).v

\* the decimal text of a small number
Num(n) == FormatUint(U64(n))

(***************************************************************************)
(* The Mutators                                                            *)
(***************************************************************************)

MaxCalls == 3

StartVersions ==
    [Major : {U64(1), MaxUint64},
     Minor : {U64(2), MaxUint64},
     Patch : {U64(3), MaxUint64},
     Revision : {MinusOne, Zero64, U64(4), MaxInt64},
     Pre : {<<>>, MustParse("1.0.0-alpha.1").Pre},
     Build : {<<>>, <<"b1">>}]

\* no Mutator called yet on the Version ver
NoCall(ver) == [op |-> "none", before |-> ver, err |-> NoError]

Init ==
    /\ pc = "mutate"
    /\ v \in StartVersions
    /\ v0 = v
    /\ last = NoCall(v)
    /\ calls = 0
    /\ CmpIdle /\ SortIdle /\ ParseIdle /\ TolIdle

IncrementRevision ==
    /\ calls < MaxCalls
    /\ v' = IncrementRevisionOf(v)
    /\ last' = [op |-> "IncrementRevision", before |-> v, err |-> NoError]
    /\ calls' = calls + 1
    /\ UNCHANGED <<pc, v0, cmpVars, sortVars, parseVars, tolVars>>

IncrementPatch ==
    /\ calls < MaxCalls
    /\ v' = IncrementPatchOf(v)
    /\ last' = [op |-> "IncrementPatch", before |-> v, err |-> NoError]
    /\ calls' = calls + 1
    /\ UNCHANGED <<pc, v0, cmpVars, sortVars, parseVars, tolVars>>

IncrementMinor ==
    /\ calls < MaxCalls
    /\ v' = IncrementMinorOf(v)
    /\ last' = [op |-> "IncrementMinor", before |-> v, err |-> NoError]
    /\ calls' = calls + 1
    /\ UNCHANGED <<pc, v0, cmpVars, sortVars, parseVars, tolVars>>

IncrementMajor ==
    /\ calls < MaxCalls
    /\ v' = IncrementMajorOf(v)
    /\ last' = [op |-> "IncrementMajor", before |-> v, err |-> NoError]
    /\ calls' = calls + 1
    /\ UNCHANGED <<pc, v0, cmpVars, sortVars, parseVars, tolVars>>

Next == IncrementRevision \/ IncrementPatch \/ IncrementMinor \/ IncrementMajor

Spec == Init /\ [][Next]_vars

(***************************************************************************)
(* Compare                                                                 *)
(***************************************************************************)

MaxRev == 1

MaxPreLen == 2

\* major, minor, patch that differ in each of the three fields
Cores == {<<1, 2, 3>>, <<1, 2, 4>>, <<1, 3, 3>>, <<2, 2, 3>>}

\* no revision (-1), or one of 0..MaxRev
Revisions == -1..MaxRev

\* numeric and alphanumeric identifiers: 2 < 11 by value and "11" < "2" by
\* bytes; "Beta" < "alpha" by bytes
PreIdentifiers == {"2", "11", "alpha", "Beta"}

PreLists == UNION { [1..n -> PreIdentifiers] : n \in 0..MaxPreLen }

\* the Version Parse builds from these fields
VersionOf(core, rev, ids, build) ==
    [Major |-> U64(core[1]), Minor |-> U64(core[2]), Patch |-> U64(core[3]),
     Revision |-> IF rev < 0 THEN MinusOne ELSE U64(rev),
     Pre |-> [k \in 1..Len(ids) |-> NewPRVersion(ids[k]).pr],
     Build |-> build]

\* every core with every revision, with and without a pre-release; and at
\* one core every revision with every pre-release list
CompareVersions ==
    { VersionOf(core, rev, ids, <<>>) :
        core \in Cores, rev \in Revisions, ids \in {<<>>, <<"alpha">>} }
    \cup
    { VersionOf(<<1, 2, 3>>, rev, ids, build) :
        rev \in Revisions, ids \in PreLists, build \in {<<>>} }

InitCompare ==
    /\ pc = "compare"
    /\ va \in CompareVersions
    /\ vb = va
    /\ vc = va
    /\ cmp = None
    /\ MutIdle /\ SortIdle /\ ParseIdle /\ TolIdle

\* a caller compares va with some o, both ways, and va with itself
CompareCall ==
    /\ pc = "compare"
    /\ \E o \in CompareVersions :
        /\ vb' = o
        /\ cmp' = [ab |-> Compare(va, o), ba |-> Compare(o, va), aa |-> Compare(va, va)]
    /\ pc' = "compared"
    /\ UNCHANGED <<va, vc, mutVars, sortVars, parseVars, tolVars>>

NextCompare == CompareCall

SpecCompare == InitCompare /\ [][NextCompare]_vars

(***************************************************************************)
(* Compare on three Versions                                               *)
(***************************************************************************)

OrderVersions ==
    { VersionOf(core, rev, ids, <<>>) :
        core \in {<<1, 2, 3>>, <<1, 2, 4>>},
        rev \in Revisions,
        ids \in {<<>>, <<"alpha">>, <<"alpha", "1">>} }

InitOrder ==
    /\ pc = "compare"
    /\ va \in OrderVersions
    /\ vb \in OrderVersions
    /\ vc \in OrderVersions
    /\ cmp = None
    /\ MutIdle /\ SortIdle /\ ParseIdle /\ TolIdle

OrderCall ==
    /\ pc = "compare"
    /\ cmp' = [ab |-> Compare(va, vb), bc |-> Compare(vb, vc), ac |-> Compare(va, vc)]
    /\ pc' = "compared"
    /\ UNCHANGED <<va, vb, vc, mutVars, sortVars, parseVars, tolVars>>

NextOrder == OrderCall

SpecOrder == InitOrder /\ [][NextOrder]_vars

(***************************************************************************)
(* Sort                                                                    *)
(***************************************************************************)

MaxSortLen == 4

\* Versions.Less
Less(data, i, j) == LT(data[i], data[j])

\* Versions.Swap
Swap(data, i, j) == [data EXCEPT ![i] = data[j], ![j] = data[i]]

\* sort.Sort on a short slice: an insertion sort by Less
RECURSIVE SiftDown(_, _)
SiftDown(data, j) ==
    IF j > 1 /\ Less(data, j, j - 1) THEN SiftDown(Swap(data, j, j - 1), j - 1)
    ELSE data

RECURSIVE InsertionSort(_, _)
InsertionSort(data, i) ==
    IF i > Len(data) THEN data ELSE InsertionSort(SiftDown(data, i), i + 1)

Sort(versions) == InsertionSort(versions, 2)

SortVersions ==
    { VersionOf(core, rev, <<>>, <<>>) :
        core \in {<<0, 0, 0>>, <<0, 0, 1>>, <<0, 1, 0>>, <<1, 0, 0>>},
        rev \in Revisions }

InitSort ==
    /\ pc = "sort"
    /\ vs \in UNION { [1..n -> SortVersions] : n \in 0..MaxSortLen }
    /\ sorted = None
    /\ MutIdle /\ CmpIdle /\ ParseIdle /\ TolIdle

SortCall ==
    /\ pc = "sort"
    /\ sorted' = Sort(vs)
    /\ pc' = "sorted"
    /\ UNCHANGED <<vs, mutVars, cmpVars, parseVars, tolVars>>

NextSort == SortCall

SpecSort == InitSort /\ [][NextSort]_vars

(***************************************************************************)
(* Parse and String                                                        *)
(***************************************************************************)

MajorTexts ==
    {"", "0", "1", "01", "10", "18446744073709551615", "18446744073709551616"}

MinorTexts == {"0", "2", "02"}

PatchTexts == {"0", "3"}

RevisionSuffixes ==
    {"", ".", ".0", ".4", ".04", ".9223372036854775807", ".9223372036854775808"}

PreSuffixes ==
    {"", "-", "-0", "-01", "-alpha", "-alpha.1", "-0a.-", "-a..b", "-1.Beta.11",
     "-18446744073709551616"}

BuildSuffixes == {"", "+", "+001", "+b.1-x", "+a..b"}

ParseInputs ==
    {""} \cup
    { major \o "." \o minor \o "." \o patch \o rev \o pre \o build :
        major \in MajorTexts, minor \in MinorTexts, patch \in PatchTexts,
        rev \in RevisionSuffixes, pre \in PreSuffixes, build \in BuildSuffixes }

InitParse ==
    /\ pc = "parse"
    /\ s \in ParseInputs
    /\ parsed = None
    /\ str = None
    /\ reparsed = None
    /\ MutIdle /\ CmpIdle /\ SortIdle /\ TolIdle

ParseCall ==
    /\ pc = "parse"
    /\ parsed' = Parse(s)
    /\ pc' = IF parsed'.err = NoError THEN "string" ELSE "rejected"
    /\ UNCHANGED <<s, str, reparsed, mutVars, cmpVars, sortVars, tolVars>>

StringCall ==
    /\ pc = "string"
    /\ str' = String(parsed.v)
    /\ pc' = "reparse"
    /\ UNCHANGED <<s, parsed, reparsed, mutVars, cmpVars, sortVars, tolVars>>

ReparseCall ==
    /\ pc = "reparse"
    /\ reparsed' = Parse(str)
    /\ pc' = "reparsed"
    /\ UNCHANGED <<s, parsed, str, mutVars, cmpVars, sortVars, tolVars>>

NextParse == ParseCall \/ StringCall \/ ReparseCall

SpecParse == InitParse /\ [][NextParse]_vars

(***************************************************************************)
(* ParseTolerant                                                           *)
(***************************************************************************)

MaxPad == 1

NumericFields == {"major", "minor", "patch", "revision"}

\* the fields of a text; "" is a field left out
TolerantFields ==
    [major : {"", "0", "1"}, minor : {"", "2"}, patch : {"", "3"},
     revision : {"", "4"}, prerelease : {"", "alpha.1"}, buildmetadata : {"", "001"}]

\* what is added to a text: leading spaces, a v before the major number,
\* leading zeroes on each numeric field, trailing spaces
Decorations ==
    [lead : 0..MaxPad, v : BOOLEAN, zeroes : [NumericFields -> 0..MaxPad],
     trail : 0..MaxPad]

RECURSIVE Repeat(_, _)
Repeat(c, n) == IF n = 0 THEN "" ELSE c \o Repeat(c, n - 1)

Undecorated == [lead |-> 0, v |-> FALSE, zeroes |-> [g \in NumericFields |-> 0], trail |-> 0]

\* the text of the fields f with the decoration d
Render(f, d) ==
    LET num(g) == IF f[g] = "" THEN "" ELSE Repeat("0", d.zeroes[g]) \o f[g]
    IN  Repeat(" ", d.lead) \o (IF d.v THEN "v" ELSE "")
        \o num("major")
        \o (IF f.minor # "" THEN "." \o num("minor") ELSE "")
        \o (IF f.patch # "" THEN "." \o num("patch") ELSE "")
        \o (IF f.revision # "" THEN "." \o num("revision") ELSE "")
        \o (IF f.prerelease # "" THEN "-" \o f.prerelease ELSE "")
        \o (IF f.buildmetadata # "" THEN "+" \o f.buildmetadata ELSE "")
        \o Repeat(" ", d.trail)

InitTolerant ==
    /\ pc = "strict"
    /\ \E f \in TolerantFields, d \in Decorations :
        /\ s = Render(f, Undecorated)
        /\ t = Render(f, d)
        /\ deco = [d EXCEPT !.zeroes = [g \in NumericFields |->
                                            IF f[g] = "" THEN 0 ELSE d.zeroes[g]]]
    /\ parsed = None
    /\ tolerant = None
    /\ strictT = None
    /\ str = None
    /\ reparsed = None
    /\ MutIdle /\ CmpIdle /\ SortIdle

StrictCall ==
    /\ pc = "strict"
    /\ parsed' = Parse(s)
    /\ pc' = "tolerant"
    /\ UNCHANGED <<s, str, reparsed, t, deco, tolerant, strictT, mutVars, cmpVars, sortVars>>

TolerantCall ==
    /\ pc = "tolerant"
    /\ tolerant' = ParseTolerant(t)
    /\ pc' = "strictT"
    /\ UNCHANGED <<parseVars, t, deco, strictT, mutVars, cmpVars, sortVars>>

StrictOnTolerantCall ==
    /\ pc = "strictT"
    /\ strictT' = Parse(t)
    /\ pc' = "done"
    /\ UNCHANGED <<parseVars, t, deco, tolerant, mutVars, cmpVars, sortVars>>

NextTolerant == StrictCall \/ TolerantCall \/ StrictOnTolerantCall

SpecTolerant == InitTolerant /\ [][NextTolerant]_vars

(***************************************************************************)
(* Properties                                                              *)
(***************************************************************************)

Present(ver) == IntNonNeg(ver.Revision)

Absent(ver) == ver.Revision = MinusOne

SameCore(x, y) == x.Major = y.Major /\ x.Minor = y.Minor /\ x.Patch = y.Patch

\* C1: Compare is transitive in each of its three relations: from
\* Compare(a,b) = Compare(b,c) = r follows Compare(a,c) = r, for r = -1, 0, 1.
CompareTransitive ==
    pc = "compared" =>
        \A r \in {-1, 0, 1} : (cmp.ab = r /\ cmp.bc = r) => cmp.ac = r

\* C2: Compare(a,b) is one of -1, 0, 1 and is the negation of Compare(b,a);
\* Compare(a,a) = 0; Compare(a,b) = 1 exactly when Compare(b,a) = -1.
CompareAntisymmetric ==
    pc = "compared" =>
        /\ cmp.ab \in {-1, 0, 1}
        /\ cmp.ab = -cmp.ba
        /\ cmp.aa = 0
        /\ (cmp.ab = 1) <=> (cmp.ba = -1)

\* a present revision against an absent one, decided by the pre-release lists
CompareAntisymmetricWitness ==
    /\ pc = "compared"
    /\ Present(va) /\ Absent(vb) /\ SameCore(va, vb)
    /\ cmp.ab = 1 /\ cmp.ba = -1

IdentifierBelow(x, y) ==
    \/ x.IsNum /\ ~y.IsNum
    \/ x.IsNum /\ y.IsNum /\ UintGreater(y.VersionNum, x.VersionNum)
    \/ ~x.IsNum /\ ~y.IsNum /\ StrGreater(y.VersionStr, x.VersionStr)

\* the first position at which two lists differ, 0 if one is a prefix of the other
FirstDifference(xs, ys) ==
    LET common == IF Len(xs) < Len(ys) THEN Len(xs) ELSE Len(ys)
        differ == { k \in 1..common : xs[k] # ys[k] }
    IN  IF differ = {} THEN 0
        ELSE CHOOSE k \in differ : \A j \in differ : k <= j

\* C4: with equal major, minor and patch and a revision that does not
\* decide, an empty pre-release list is above a non-empty one; two non-empty
\* lists are decided by their first differing identifiers (numeric below
\* alphanumeric, numeric by value, alphanumeric by bytes), and a strict prefix
\* is below the longer list.
PreReleasePrecedence ==
    (/\ pc = "compared"
     /\ SameCore(va, vb)
     /\ ~(Present(va) /\ Present(vb) /\ va.Revision # vb.Revision)) =>
        LET k == FirstDifference(va.Pre, vb.Pre)
        IN  /\ (va.Pre = <<>> /\ vb.Pre # <<>>) => cmp.ab = 1
            /\ (va.Pre # <<>> /\ vb.Pre = <<>>) => cmp.ab = -1
            /\ (va.Pre # <<>> /\ vb.Pre # <<>> /\ k > 0) =>
                    cmp.ab = (IF IdentifierBelow(va.Pre[k], vb.Pre[k]) THEN -1 ELSE 1)
            /\ (va.Pre # <<>> /\ vb.Pre # <<>> /\ k = 0) =>
                    cmp.ab = (IF Len(va.Pre) < Len(vb.Pre) THEN -1
                              ELSE IF Len(va.Pre) > Len(vb.Pre) THEN 1
                              ELSE 0)
            /\ (k > 0 /\ PRString(va.Pre[k]) = "2" /\ PRString(vb.Pre[k]) = "11") =>
                    cmp.ab = -1
            /\ (k > 0 /\ PRString(va.Pre[k]) = "11" /\ PRString(vb.Pre[k]) = "Beta") =>
                    cmp.ab = -1
            /\ (k > 0 /\ PRString(va.Pre[k]) = "Beta" /\ PRString(vb.Pre[k]) = "alpha") =>
                    cmp.ab = -1

\* a list against a longer list it is a prefix of, one revision absent
PreReleasePrecedenceWitness ==
    /\ pc = "compared"
    /\ SameCore(va, vb) /\ Absent(va) /\ Present(vb)
    /\ Len(va.Pre) = 1 /\ Len(vb.Pre) = 2 /\ va.Pre[1] = vb.Pre[1]
    /\ va.Pre[1].IsNum /\ ~vb.Pre[2].IsNum
    /\ cmp.ab = -1

\* C5: a text Parse accepts is given back by String, and parsing what String
\* gives yields the same Version, field by field.
RoundTrip ==
    pc = "reparsed" =>
        /\ reparsed.err = NoError
        /\ reparsed.v = parsed.v
        /\ str = s

\* a text with a revision of 0, two pre-release identifiers and build metadata
RoundTripWitness ==
    /\ pc = "reparsed"
    /\ parsed.v.Revision = Zero64
    /\ Len(parsed.v.Pre) = 2 /\ parsed.v.Pre[2].IsNum
    /\ Len(parsed.v.Build) = 2
    /\ reparsed.v = parsed.v

IsPermutation(xs, ys) ==
    /\ Len(xs) = Len(ys)
    /\ \E f \in [1..Len(xs) -> 1..Len(xs)] :
        /\ \A i, j \in 1..Len(xs) : i # j => f[i] # f[j]
        /\ \A i \in 1..Len(xs) : ys[i] = xs[f[i]]

\* C6: Sort leaves a permutation of its input in which no element is above
\* a later one by Compare; [0.1.0, 1.0.0, 0.0.1] becomes [0.0.1, 0.1.0, 1.0.0]
\* and [0.1.0.0, 1.0.0.0, 0.0.1.0, 0.0.0.1] becomes
\* [0.0.0.1, 0.0.1.0, 0.1.0.0, 1.0.0.0].
SortAscending ==
    pc = "sorted" =>
        /\ IsPermutation(vs, sorted)
        /\ \A i, j \in 1..Len(sorted) : i < j => Compare(sorted[i], sorted[j]) <= 0
        /\ [k \in 1..Len(vs) |-> String(vs[k])] = <<"0.1.0", "1.0.0", "0.0.1">> =>
                [k \in 1..Len(sorted) |-> String(sorted[k])] = <<"0.0.1", "0.1.0", "1.0.0">>
        /\ [k \in 1..Len(vs) |-> String(vs[k])] = <<"0.1.0.0", "1.0.0.0", "0.0.1.0", "0.0.0.1">> =>
                [k \in 1..Len(sorted) |-> String(sorted[k])]
                    = <<"0.0.0.1", "0.0.1.0", "0.1.0.0", "1.0.0.0">>

NoDigit(text) == \A i \in 1..Len(text) : CharAt(text, i) \notin CharsOf(numbers)

\* C7: Parse and ParseTolerant both reject the empty text, and ParseTolerant
\* rejects every text without a digit.
EmptyRejected ==
    pc = "done" =>
        /\ t = "" => (strictT.err # NoError /\ tolerant.err # NoError)
        /\ NoDigit(t) => tolerant.err # NoError

\* C8: for a text s Parse accepts and t obtained from it by leading spaces,
\* a v before the major number, trailing spaces and leading zeroes on the
\* numeric fields, ParseTolerant(t) is Parse(s); Parse rejects t when a
\* numeric field of it has a leading zero.
TolerantNormalizes ==
    (pc = "done" /\ parsed.err = NoError) =>
        /\ tolerant.err = NoError
        /\ tolerant.v = parsed.v
        /\ (\E g \in NumericFields : deco.zeroes[g] > 0) => strictT.err # NoError

\* C9: whatever Mutators are called, the revision is present exactly if it
\* was present at first, and absent (-1) if it was absent.
RevisionModeKept ==
    /\ (Present(v) <=> Present(v0))
    /\ (EmitsRevision(v) <=> EmitsRevision(v0))
    /\ (Absent(v0) => Absent(v))

\* C10: a Mutator returns no error and writes only its fields:
\* IncrementMajor major+1, minor 0, patch 0; IncrementMinor minor+1, patch 0;
\* IncrementPatch patch+1; each of them revision 0 if it is present;
\* IncrementRevision the revision alone; none the pre-release or build list.
\* 1.2.3.4 after IncrementMinor is 1.3.0.0.  (+1 is Go's: it wraps at 2^64.)
MutatorFrame ==
    last.op # "none" =>
        LET b == last.before
            reset == IF Present(b) THEN Zero64 ELSE b.Revision
        IN  /\ last.err = NoError
            /\ v.Pre = b.Pre /\ v.Build = b.Build
            /\ last.op = "IncrementMajor" =>
                    /\ v.Major = AddOne(b.Major)
                    /\ v.Minor = Zero64 /\ v.Patch = Zero64 /\ v.Revision = reset
            /\ last.op = "IncrementMinor" =>
                    /\ v.Major = b.Major
                    /\ v.Minor = AddOne(b.Minor)
                    /\ v.Patch = Zero64 /\ v.Revision = reset
            /\ last.op = "IncrementPatch" =>
                    /\ v.Major = b.Major /\ v.Minor = b.Minor
                    /\ v.Patch = AddOne(b.Patch)
                    /\ v.Revision = reset
            /\ last.op = "IncrementRevision" =>
                    /\ v.Major = b.Major /\ v.Minor = b.Minor /\ v.Patch = b.Patch
                    /\ v.Revision = (IF Present(b) THEN AddOne(b.Revision) ELSE b.Revision)
            /\ (last.op = "IncrementMinor" /\ String(b) = "1.2.3.4") =>
                    /\ b = MustParse("1.2.3.4")
                    /\ v = MustParse("1.3.0.0")

\* 1.2.3.4 after IncrementMinor
MutatorFrameWitness ==
    /\ last.op = "IncrementMinor"
    /\ String(last.before) = "1.2.3.4"
    /\ String(v) = "1.3.0.0"

====
